---- MODULE Spec2Model ----
(***************************************************************************)
(* RedisClusterPersistence of mosca (lib/persistence/redis_cluster.js):    *)
(* several broker nodes share one clustered key-value store and one        *)
(* pub/sub channel.  Each node keeps an in-memory Matcher of               *)
(* (pattern, clientId) pairs that is repaired from the store after a       *)
(* SyncNotice or at start-up.                                              *)
(*                                                                         *)
(* Strings that the code splits on ':' or '/' are modelled as the sequence *)
(* of their segments: the client id "c:d" is <<"c","d">>, the topic "a/b"  *)
(* is <<"a","b">>.  Every request to the store is one atomic step that     *)
(* executes the request and runs its reply callback.                       *)
(***************************************************************************)
EXTENDS Integers, Sequences, FiniteSets, TLC

VARIABLES
    subsStore,      \* store: subscription key -> serialized record, or Nil
    packetsStore,   \* store: client id of a backlog key -> list, head first
    retainedStore,  \* store: the retained hash, topic -> serialized packet or Nil
    inbox,          \* channel: per node, the SyncNotices not yet handled
    _subMatcher,    \* per node: the set of (pattern, id) pairs of its Matcher
    _uuid,          \* per node: the identity of the running instance
    status,         \* per node: "subscribing", "resync" or "active"
    left,           \* per node: start-up newSub callbacks async.each still waits for
    ready,          \* per node: the ready callback's invocations, as <<err>> each
    newSubs,        \* pending newSub reads: start-up reads and 500 ms retries
    ops,            \* the public operations called so far, by call number
    calls,          \* number of public operations called so far
    restarts,       \* number of close-and-construct so far
    latest,         \* history: per topic, the packet last handed to storeRetained
    scans,          \* history: number of hkeys requests issued so far
    callback,       \* the caller's callback (done or onPacket) the last step invoked, if any
    appended,       \* history: per backlog, the messageIds in lpush order
    enqueued,       \* history: the storeOfflinePacket calls that have completed
    restored,       \* history: per node, the records its start-up reads fetched
    written,        \* history: per subscription key, who wrote the record it holds
    expiry,         \* store: per key, the time-to-live it carries, or Nil
    faults,         \* number of requests the store will still answer with an error
    request         \* the store request the last step executed and how its reply ended

vars == <<subsStore, packetsStore, retainedStore, inbox, _subMatcher, _uuid, status,
          left, ready, newSubs, ops, calls, restarts, latest, scans, callback,
          appended, enqueued, restored, written, expiry, faults, request>>

(* ------------------------------ bounds -------------------------------- *)
\* public operations the broker calls in a behaviour of Spec, SpecSubs,
\* SpecQueue, SpecSync, SpecRetained and SpecRestart
MaxCalls == 2
MaxSubsCalls == 3
MaxQueueCalls == 4
MaxSyncCalls == 3
MaxRetainedCalls == 3
MaxRestartCalls == 3
\* close-and-construct of an instance
MaxRestarts == 1
\* calls of the broker while other writers touch the store
MaxResyncCalls == 2
\* calls of the brokers while records expire
MaxExpiryCalls == 3
\* calls of the broker against a failing store
MaxFaultCalls == 3
\* requests the store answers with an error
MaxFaults == 2
\* calls of the brokers with drains running side by side
MaxDrainCalls == 5
\* calls of the broker while an instance starts
MaxStartupCalls == 2
\* requests the store answers with an error while an instance starts
MaxStartupFaults == 1
\* the call numbers
Largest(S) == CHOOSE m \in S : \A x \in S : x <= m
Calls == 1 .. Largest({MaxCalls, MaxSubsCalls, MaxQueueCalls, MaxSyncCalls, MaxRetainedCalls,
                       MaxRestartCalls, MaxResyncCalls, MaxExpiryCalls, MaxFaultCalls,
                       MaxStartupCalls, MaxDrainCalls})

Nodes == {"A", "B"}
\* the client ids "c" and "c:d"
ClientIds == {<<"c">>, <<"c", "d">>}
\* the topics "a/b" and "a/b/c"
Topics == {<<"a", "b">>, <<"a", "b", "c">>}
\* session.subscriptions, in Object.keys order
SubscriptionMaps ==
    { << [pattern |-> <<"a", "+">>, qos |-> 1], [pattern |-> <<"a", "b", "c">>, qos |-> 0] >>,
      << [pattern |-> <<"a", "+">>, qos |-> 1], [pattern |-> <<"a", "#">>, qos |-> 1] >>,
      << [pattern |-> <<"a", "#">>, qos |-> 1] >> }

(* ------------------------------ values -------------------------------- *)
\* a reply of the store for a key that does not exist (null), and Some(v) for a value
Nil == <<>>
Some(v) == <<v>>
Val(o) == o[1]

Range(s) == { s[i] : i \in DOMAIN s }

\* "{persistence:subs}:" + client.id, as ':'-separated segments
SubsKey(id) == <<"{persistence", "subs}">> \o id
SubsKeys == { SubsKey(id) : id \in ClientIds }
\* key.split(":")[2]
KeyId(key) == <<key[3]>>
\* every id a backlog key can be built from
Ids == ClientIds \cup { KeyId(k) : k \in SubsKeys }

\* JSON.stringify / JSON.parse of a subscriptions object: the text keeps the
\* keys in order; JSON.parse(null) is null
Stringify(v) == [type |-> "object", json |-> v]
Parse(reply) == IF reply = Nil THEN Nil ELSE Some(Val(reply).json)
\* values of a subscription key that no storeSubscriptions wrote: a text that is
\* not JSON, and the JSON text of a number
NotJson == [type |-> "text", json |-> <<>>]
JsonNumber == [type |-> "number", json |-> <<>>]
Malformed == {NotJson, JsonNumber}
\* JSON.parse(reply) throws a SyntaxError
SyntaxError(reply) == reply # Nil /\ Val(reply).type = "text"
\* typeof JSON.parse(reply) === 'object', for a reply that is not null
IsObject(reply) == Val(reply).type = "object"
\* JSON.parse(x) || {}
ParseOrEmpty(reply) == IF Parse(reply) = Nil THEN <<>> ELSE Val(Parse(reply))
\* Object.keys of a subscriptions object
Keys(subscriptions) == { subscriptions[i].pattern : i \in DOMAIN subscriptions }

\* a payload: a Buffer; JSON.stringify turns it into the array of its bytes and
\* new Buffer(array) builds the Buffer again
Payload == [type |-> "Buffer", bytes |-> <<119>>]
StringifyPacket(p) ==
    [json |-> [p EXCEPT !.payload = [type |-> "Array", bytes |-> p.payload.bytes]]]
ParsePacket(s) == s.json
NewBuffer(a) == [type |-> "Buffer", bytes |-> a.bytes]
RestorePacket(s) ==
    LET packet == ParsePacket(s)
    IN  [packet EXCEPT !.payload = NewBuffer(packet.payload)]

(* ------------------------------ Matcher ------------------------------- *)
\* pattern p matches topic t: '+' is one level, '#' any number of trailing levels
RECURSIVE Matches(_, _)
Matches(p, t) ==
    IF p = <<>> THEN t = <<>>
    ELSE IF Head(p) = "#" THEN TRUE
    ELSE IF t = <<>> THEN FALSE
    ELSE (Head(p) = "+" \/ Head(p) = Head(t)) /\ Matches(Tail(p), Tail(t))

MatcherAdd(m, pattern, id) == m \cup {<<pattern, id>>}
MatcherRemove(m, pattern, id) == m \ {<<pattern, id>>}
MatcherMatch(m, topic) == { e[2] : e \in { x \in m : Matches(x[1], topic) } }

(* ------------------------------ operations ---------------------------- *)
NoClient == [id |-> <<"c">>, clean |-> FALSE, subscriptions |-> <<>>]
\* a call that has not been made; Done is one whose work has ended
NoOp ==
    [kind |-> "none", node |-> "A", client |-> NoClient, subscriptions |-> <<>>,
     source |-> Nil, packet |-> Nil, todo |-> {}, matches |-> {}, targets |-> {},
     delivered |-> <<>>, pattern |-> <<>>, fanout |-> {}, topics |-> {},
     matched |-> <<>>, failed |-> FALSE, pc |-> "none"]
Done == [NoOp EXCEPT !.pc = "done"]

\* the sessions the broker hands over; only storeSubscriptions reads the
\* subscriptions of a session
Clients == [id : ClientIds, clean : BOOLEAN, subscriptions : SubscriptionMaps]
Sessions == [id : ClientIds, clean : BOOLEAN, subscriptions : {<<>>}]

\* an invocation of a caller's callback, done(err, value) or onPacket(err, packet),
\* by call i, whose operation record is op
Callback(i, op, value) == [call |-> i, op |-> op, err |-> FALSE, value |-> value]
\* done(err, value) with an error
CallbackErr(i, op, value) == [call |-> i, op |-> op, err |-> TRUE, value |-> value]
NoCallback == [call |-> 0, op |-> NoOp, err |-> FALSE, value |-> Nil]

\* the request of call i (0: of the sync protocol) that the store executes in a
\* step: err if the store answers with an error, thrown if the reply callback
\* ends with an exception nobody catches
Request(i, cmd, err, thrown) == [call |-> i, cmd |-> cmd, err |-> err, thrown |-> thrown]
NoRequest == Request(0, "none", FALSE, FALSE)

\* no operation is in flight
Idle == \A i \in Calls : ops[i].pc \in {"none", "done"}

Running(n) == \E i \in Calls : ops[i].node = n /\ ops[i].pc \notin {"none", "done"}

Start(f) ==
    /\ faults = f
    /\ request = NoRequest
    /\ expiry = [subs |-> [k \in SubsKeys |-> Nil], packets |-> [c \in Ids |-> Nil]]
    /\ subsStore = [k \in SubsKeys |-> Nil]
    /\ packetsStore = [c \in Ids |-> <<>>]
    /\ retainedStore = [t \in Topics |-> Nil]
    /\ inbox = [n \in Nodes |-> <<>>]
    /\ _subMatcher = [n \in Nodes |-> {}]
    /\ _uuid = [n \in Nodes |-> <<n, 0>>]
    /\ status = [n \in Nodes |-> "subscribing"]
    /\ left = [n \in Nodes |-> 0]
    /\ ready = [n \in Nodes |-> <<>>]
    /\ newSubs = {}
    /\ ops = [i \in Calls |-> NoOp]
    /\ calls = 0
    /\ restarts = 0
    /\ appended = [c \in Ids |-> <<>>]
    /\ enqueued = {}
    /\ restored = [n \in Nodes |-> {}]
    /\ latest = [t \in Topics |-> Nil]
    /\ scans = 0
    /\ callback = NoCallback
    /\ written = [k \in SubsKeys |-> Nil]

\* the state after the construction of the instances, with a store that never fails
Init == Start(0)

(* ------------------------- cluster sync protocol ---------------------- *)
\* the replies the store can give to a request: an error while it still fails
Errs == IF faults > 0 THEN BOOLEAN ELSE {FALSE}
\* an error reply uses up one of the failures
Spent(err) == faults' = IF err THEN faults - 1 ELSE faults

\* the callback async.each hands to newSub: the last one fires the ready callback
eachCallback(n) ==
    /\ left' = [left EXCEPT ![n] = @ - 1]
    /\ IF left[n] = 1 /\ status[n] = "resync"
       THEN /\ status' = [status EXCEPT ![n] = "active"]
            /\ ready' = [ready EXCEPT ![n] = Append(@, "ok")]
       ELSE UNCHANGED <<status, ready>>

\* cb(err) of a start-up read: async.each calls the ready callback with the first
\* error and never again
eachCallbackErr(n) ==
    /\ UNCHANGED left
    /\ IF status[n] = "resync"
       THEN /\ status' = [status EXCEPT ![n] = "failed"]
            /\ ready' = [ready EXCEPT ![n] = Append(@, "err")]
       ELSE UNCHANGED <<status, ready>>

\* the connection of node n has subscribed to the channel
Listening(n) == status[n] \in {"resync", "active", "failed"}

\* a newSub that adds nothing to the Matcher
newSubEntriesNone(key, subs) == {}

\* the ids newSub adds to the Matcher for the record it fetched
newSubEntries(key, subs) == { <<sub, KeyId(key)>> : sub \in Keys(subs) }

\* newSub(key, cb, retried): the get of key and its reply callback; rest is the
\* set of pending reads without this one
newSub(n, key, cb, retried, rest) ==
    LET result == subsStore[key]
        subs == Parse(result)
        retry == [node |-> n, key |-> key, cb |-> cb, retried |-> TRUE]
    IN  \E err \in Errs :
           /\ Spent(err)
           /\ IF err /\ ~cb
              THEN /\ request' = Request(0, "get", TRUE, FALSE)
                   /\ newSubs' = rest
                   /\ UNCHANGED <<_subMatcher, left, status, ready, restored>>
              ELSE IF err
              THEN \* cb(err) does not return: the reply, undefined or null, goes
                   \* on to JSON.parse, which refuses undefined
                   \E thrown \in BOOLEAN :
                      /\ request' = Request(0, "get", TRUE, thrown)
                      /\ eachCallbackErr(n)
                      /\ newSubs' = IF thrown \/ retried THEN rest ELSE rest \cup {retry}
                      /\ UNCHANGED <<_subMatcher, restored>>
              ELSE IF SyntaxError(result)
              THEN /\ request' = Request(0, "get", FALSE, TRUE)
                   /\ newSubs' = rest
                   /\ UNCHANGED <<_subMatcher, left, status, ready, restored>>
              ELSE IF result = Nil \/ ~IsObject(result)
              THEN /\ request' = Request(0, "get", FALSE, FALSE)
                   /\ newSubs' = IF retried THEN rest ELSE rest \cup {retry}
                   /\ UNCHANGED <<_subMatcher, left, status, ready, restored>>
              ELSE /\ request' = Request(0, "get", FALSE, FALSE)
                   /\ _subMatcher' = [_subMatcher EXCEPT ![n] =
                                        @ \cup newSubEntries(key, Val(subs))]
                   /\ newSubs' = rest
                   /\ IF cb
                      THEN /\ eachCallback(n)
                           /\ restored' = [restored EXCEPT ![n] = @ \cup {<<key, Val(subs)>>}]
                      ELSE UNCHANGED <<left, status, ready, restored>>

\* on("subscribe"): the keys request and async.each(keys, newSub, callback)
subscribe(n) ==
    /\ status[n] = "subscribing"
    /\ \E err \in Errs :
          LET keys == { k \in SubsKeys : subsStore[k] # Nil }
          IN  /\ Spent(err)
              /\ IF err
                 THEN \* async.each(undefined, ...): a TypeError, or no keys
                      \E thrown \in BOOLEAN :
                         /\ request' = Request(0, "keys", TRUE, thrown)
                         /\ status' = [status EXCEPT ![n] =
                                         IF thrown THEN "failed" ELSE "active"]
                         /\ ready' = [ready EXCEPT ![n] =
                                        IF thrown THEN @ ELSE Append(@, "ok")]
                         /\ UNCHANGED <<left, newSubs>>
                 ELSE /\ request' = Request(0, "keys", FALSE, FALSE)
                      /\ IF keys = {}
                         THEN /\ status' = [status EXCEPT ![n] = "active"]
                              /\ ready' = [ready EXCEPT ![n] = Append(@, "ok")]
                              /\ UNCHANGED <<left, newSubs>>
                         ELSE /\ status' = [status EXCEPT ![n] = "resync"]
                              /\ left' = [left EXCEPT ![n] = Cardinality(keys)]
                              /\ newSubs' = newSubs \cup
                                     { [node |-> n, key |-> k, cb |-> TRUE,
                                        retried |-> FALSE] : k \in keys }
                              /\ UNCHANGED ready
    /\ UNCHANGED <<expiry, enqueued, restored>>
    /\ UNCHANGED <<subsStore, packetsStore, retainedStore, inbox, _subMatcher, _uuid,
                   ops, calls, restarts, latest, scans, appended, written>>
    /\ callback' = NoCallback

\* a pending newSub read is executed: a start-up read, or a retry after 500 ms
newSubRead(t) ==
    /\ t \in newSubs
    /\ newSub(t.node, t.key, t.cb, t.retried, newSubs \ {t})
    /\ UNCHANGED <<expiry, enqueued>>
    /\ UNCHANGED <<subsStore, packetsStore, retainedStore, inbox, _uuid,
                   ops, calls, restarts, latest, scans, appended, written>>
    /\ callback' = NoCallback

\* a node that takes every SyncNotice for one of another process
selfEchoNever(n, parsed) == FALSE

\* the test of on("message"), negated: the SyncNotice is this process's own
selfEcho(n, parsed) == parsed.process = _uuid[n]

\* on("message"): a SyncNotice of another process makes this node read the key
message(n) ==
    /\ Listening(n)
    /\ inbox[n] # <<>>
    /\ LET parsed == Head(inbox[n])
       IN  /\ inbox' = [inbox EXCEPT ![n] = Tail(@)]
           /\ IF ~selfEcho(n, parsed)
              THEN newSub(n, parsed.key, FALSE, FALSE, newSubs)
              ELSE /\ request' = NoRequest
                   /\ UNCHANGED <<_subMatcher, newSubs, left, status, ready, restored,
                                  faults>>
    /\ UNCHANGED <<expiry, enqueued>>
    /\ UNCHANGED <<subsStore, packetsStore, retainedStore, _uuid,
                   ops, calls, restarts, latest, scans, appended, written>>
    /\ callback' = NoCallback

\* close() followed by the construction of a new instance on the same node
restart(n) ==
    /\ status[n] = "active"
    /\ ~Running(n)
    /\ restarts < MaxRestarts
    /\ restarts' = restarts + 1
    /\ _subMatcher' = [_subMatcher EXCEPT ![n] = {}]
    /\ _uuid' = [_uuid EXCEPT ![n] = <<n, @[2] + 1>>]
    /\ status' = [status EXCEPT ![n] = "subscribing"]
    /\ inbox' = [inbox EXCEPT ![n] = <<>>]
    /\ newSubs' = { t \in newSubs : t.node # n }
    /\ left' = [left EXCEPT ![n] = 0]
    /\ ready' = [ready EXCEPT ![n] = <<>>]
    /\ restored' = [restored EXCEPT ![n] = {}]
    /\ callback' = NoCallback
    /\ UNCHANGED <<faults, expiry>>
    /\ request' = NoRequest
    /\ UNCHANGED enqueued
    /\ UNCHANGED <<subsStore, packetsStore, retainedStore, ops, calls, latest, scans,
                   appended, written>>

(* --------------------------- subscription store ----------------------- *)
\* the new call's number
NewCall == calls + 1
\* the broker calls an instance once its ready callback has fired
CanCall(n) == status[n] = "active"

\* a storeSubscriptions that persists the qos 0 entries as well
qosFilterNone(subscriptions) == subscriptions

\* the subscriptions object storeSubscriptions builds: the qos > 0 entries
qosFilter(subscriptions) == SelectSeq(subscriptions, LAMBDA s : s.qos > 0)

\* one round of the forEach that updates the Matcher
matcherUpdateOne(m, e, id) ==
    IF id \notin MatcherMatch(m, e) THEN MatcherAdd(m, e, id) ELSE m

\* Object.keys(subscriptions).forEach(...) of storeSubscriptions
RECURSIVE matcherUpdate(_, _, _)
matcherUpdate(m, subscriptions, id) ==
    IF subscriptions = <<>> THEN m
    ELSE matcherUpdate(matcherUpdateOne(m, Head(subscriptions).pattern, id),
                       Tail(subscriptions), id)

\* a cleanup that leaves the Matcher alone
matcherRemoveNone(m, subs, id) == m

\* the forEach that removes every pattern of a fetched record for client id
matcherRemoveAll(m, subs, id) == m \ { <<sub, id>> : sub \in Keys(subs) }

\* the SyncNotice storeSubscriptions publishes
Notice(n, key) == [key |-> key, process |-> _uuid[n]]

\* subscriptions.ttl of the defaults, 60 * 60 * 1000 ms
ttlSubscriptions == 3600000
\* packets.ttl of the defaults, 60 * 60 * 1000 ms
ttlPackets == 3600000

\* a completion that calls done after every reply that ends the operation, whether
\* or not done was called with an error before
answeredAgain(i, r, hasDone, value) ==
    IF ops[i].todo = {r}
    THEN /\ ops' = [ops EXCEPT ![i] = Done]
         /\ callback' = IF hasDone THEN Callback(i, ops[i], value) ELSE NoCallback
    ELSE /\ ops' = [ops EXCEPT ![i].todo = @ \ {r}]
         /\ callback' = NoCallback

\* request r of operation i is answered; the last answer calls done(err, value),
\* if the operation has a done and has not called it with an error before
answered(i, r, hasDone, value) ==
    IF ops[i].todo = {r}
    THEN /\ ops' = [ops EXCEPT ![i] = Done]
         /\ callback' = IF hasDone /\ ~ops[i].failed
                        THEN Callback(i, ops[i], value)
                        ELSE NoCallback
    ELSE /\ ops' = [ops EXCEPT ![i].todo = @ \ {r}]
         /\ callback' = NoCallback

\* request r of operation i is answered with an error: async calls done(err, value)
\* at the first error and never again
refused(i, r, hasDone, value) ==
    /\ ops' = IF ops[i].todo = {r}
              THEN [ops EXCEPT ![i] = Done]
              ELSE [ops EXCEPT ![i].todo = @ \ {r}, ![i].failed = TRUE]
    /\ callback' = IF hasDone /\ ~ops[i].failed
                   THEN CallbackErr(i, ops[i], value)
                   ELSE NoCallback

\* a storeSubscriptions without the early return for clean sessions
cleanReturnNever(client) == FALSE

\* if (cleanSession) return done && done()
cleanReturn(client) == client.clean

storeSubscriptions(n, client) ==
    /\ CanCall(n)
    /\ calls' = NewCall
    /\ LET op == [NoOp EXCEPT !.kind = "storeSubscriptions", !.node = n,
                              !.client = client]
       IN  IF cleanReturn(client)
           THEN /\ ops' = [ops EXCEPT ![NewCall] = Done]
                /\ callback' = Callback(NewCall, op, Nil)
                /\ UNCHANGED _subMatcher
           ELSE LET subscriptions == qosFilter(client.subscriptions)
                IN  /\ _subMatcher' = [_subMatcher EXCEPT ![n] =
                                         matcherUpdate(@, subscriptions, client.id)]
                    /\ ops' = [ops EXCEPT ![NewCall] =
                                 [op EXCEPT !.subscriptions = subscriptions,
                                            !.todo = {"set", "publish"},
                                            !.pc = "parallel"]]
                    /\ callback' = NoCallback
    /\ request' = NoRequest
    /\ UNCHANGED <<faults, expiry, enqueued, restored>>
    /\ UNCHANGED <<subsStore, packetsStore, retainedStore, inbox, _uuid, status, left,
                   ready, newSubs, restarts, latest, scans, appended, written>>

\* set [clientSubKey, JSON.stringify(subscriptions), "PX", ttl]
storeSubscriptionsSet(i) ==
    /\ ops[i].kind = "storeSubscriptions"
    /\ "set" \in ops[i].todo
    /\ \E err \in Errs :
          /\ Spent(err)
          /\ request' = Request(i, "set", err, FALSE)
          /\ IF err
             THEN /\ refused(i, "set", TRUE, Nil)
                  /\ UNCHANGED <<subsStore, written, expiry>>
             ELSE /\ subsStore' = [subsStore EXCEPT ![SubsKey(ops[i].client.id)] =
                                     Some(Stringify(ops[i].subscriptions))]
                  /\ written' = [written EXCEPT ![SubsKey(ops[i].client.id)] =
                                   Some([node |-> ops[i].node,
                                         subscriptions |-> ops[i].client.subscriptions])]
                  /\ expiry' = [expiry EXCEPT !.subs[SubsKey(ops[i].client.id)] =
                                  Some(ttlSubscriptions)]
                  /\ answered(i, "set", TRUE, Nil)
    /\ UNCHANGED <<enqueued, restored>>
    /\ UNCHANGED <<packetsStore, retainedStore, inbox, _subMatcher, _uuid, status, left,
                   ready, newSubs, calls, restarts, latest, scans, appended>>

\* publish [channel, JSON.stringify({key, process})]: to every subscribed connection
storeSubscriptionsPublish(i) ==
    /\ ops[i].kind = "storeSubscriptions"
    /\ "publish" \in ops[i].todo
    /\ \E err \in Errs :
          /\ Spent(err)
          /\ request' = Request(i, "publish", err, FALSE)
          /\ IF err
             THEN /\ refused(i, "publish", TRUE, Nil)
                  /\ UNCHANGED inbox
             ELSE /\ inbox' = [m \in Nodes |->
                                 IF Listening(m)
                                 THEN Append(inbox[m],
                                             Notice(ops[i].node, SubsKey(ops[i].client.id)))
                                 ELSE inbox[m]]
                  /\ answered(i, "publish", TRUE, Nil)
    /\ UNCHANGED <<expiry, enqueued, restored>>
    /\ UNCHANGED <<subsStore, packetsStore, retainedStore, _subMatcher, _uuid, status,
                   left, ready, newSubs, calls, restarts, latest, scans, appended, written>>

\* what Object.keys(subs) gives for a record that is a number: the empty list, or
\* a TypeError in an engine older than ES2015
KeysThrow(reply) == IF reply # Nil /\ ~IsObject(reply) THEN BOOLEAN ELSE {FALSE}
\* JSON.parse(reply) || {} of a reply that parses
ParsedOrEmpty(reply) == IF reply # Nil /\ IsObject(reply) THEN ParseOrEmpty(reply) ELSE <<>>

\* JSON.parse(reply) || {} of a record that is a number: the number, not a map
NotAMap == <<JsonNumber>>
\* what JSON.parse(reply) || {} evaluates to
ParsedValue(reply) == IF reply # Nil /\ ~IsObject(reply) THEN NotAMap ELSE ParsedOrEmpty(reply)

\* the get of a record by a public operation, as its reply callback sees it: the
\* store's error (the reply is then undefined, which JSON.parse refuses, or null),
\* the exception of JSON.parse or Object.keys, the patterns removed from the
\* Matcher and the value of the variable that holds the parsed record
Gets(key) ==
    { [err |-> err, thrown |-> thrown, subs |-> subs, value |-> value] :
        err \in Errs, thrown \in BOOLEAN,
        subs \in {<<>>, ParsedOrEmpty(subsStore[key])},
        value \in {<<>>, ParsedValue(subsStore[key])} }
GetReplies(key) ==
    { g \in Gets(key) :
        IF g.err
        THEN g.subs = <<>> /\ g.value = <<>>
        ELSE /\ g.thrown \in (IF SyntaxError(subsStore[key]) THEN {TRUE}
                              ELSE KeysThrow(subsStore[key]))
             /\ g.subs = (IF g.thrown THEN <<>> ELSE ParsedOrEmpty(subsStore[key]))
             /\ g.value = (IF SyntaxError(subsStore[key]) THEN <<>>
                           ELSE ParsedValue(subsStore[key])) }

\* _cleanClient of a clean session: the get of the record and its callback, which
\* ignores err, removes the patterns and issues the two del requests
_cleanClient(n, client, kind) ==
    \E g \in GetReplies(SubsKey(client.id)) :
       /\ Spent(g.err)
       /\ request' = Request(NewCall, "get", g.err, g.thrown)
       /\ _subMatcher' = [_subMatcher EXCEPT ![n] = matcherRemoveAll(@, g.subs, client.id)]
       /\ ops' = [ops EXCEPT ![NewCall] =
                    IF g.thrown THEN Done
                    ELSE [NoOp EXCEPT !.kind = kind, !.node = n, !.client = client,
                                      !.source = written[SubsKey(client.id)],
                                      !.todo = {"delSubs", "delPackets"}, !.pc = "clean"]]
       /\ callback' = NoCallback
       /\ UNCHANGED <<subsStore, packetsStore, written, expiry>>

\* the two del requests of _cleanClient; done(err, {}) when both are answered or
\* at the first error, if the caller passed a done
_cleanClientDel(i, r) ==
    /\ ops[i].pc = "clean"
    /\ r \in ops[i].todo
    /\ \E err \in Errs :
          /\ Spent(err)
          /\ request' = Request(i, "del", err, FALSE)
          /\ IF err
             THEN /\ refused(i, r, ops[i].kind = "lookupSubscriptions", <<>>)
                  /\ UNCHANGED <<subsStore, written, packetsStore, expiry>>
             ELSE /\ IF r = "delSubs"
                     THEN /\ subsStore' = [subsStore EXCEPT ![SubsKey(ops[i].client.id)] = Nil]
                          /\ written' = [written EXCEPT ![SubsKey(ops[i].client.id)] = Nil]
                          /\ expiry' = [expiry EXCEPT !.subs[SubsKey(ops[i].client.id)] = Nil]
                          /\ UNCHANGED packetsStore
                     ELSE /\ packetsStore' = [packetsStore EXCEPT ![ops[i].client.id] = <<>>]
                          /\ expiry' = [expiry EXCEPT !.packets[ops[i].client.id] = Nil]
                          /\ UNCHANGED <<subsStore, written>>
                  /\ answered(i, r, ops[i].kind = "lookupSubscriptions", <<>>)
    /\ UNCHANGED <<enqueued, restored>>
    /\ UNCHANGED <<retainedStore, inbox, _subMatcher, _uuid, status, left, ready,
                   newSubs, calls, restarts, latest, scans, appended>>

\* lookupSubscriptions: cleanup for a clean session; otherwise the get of the
\* record and its callback, which removes the patterns and lets the del follow,
\* or ends the series with done(err, subscriptions) if the get failed
lookupSubscriptions(n, client) ==
    /\ CanCall(n)
    /\ calls' = NewCall
    /\ IF client.clean
       THEN _cleanClient(n, client, "lookupSubscriptions")
       ELSE \E g \in GetReplies(SubsKey(client.id)) :
               LET op == [NoOp EXCEPT !.kind = "lookupSubscriptions", !.node = n,
                                      !.client = client,
                                      !.source = written[SubsKey(client.id)],
                                      !.subscriptions = g.value,
                                      !.todo = {"del"}, !.pc = "series"]
               IN  /\ Spent(g.err)
                   /\ request' = Request(NewCall, "get", g.err, g.thrown)
                   /\ _subMatcher' = [_subMatcher EXCEPT ![n] =
                                        matcherRemoveAll(@, g.subs, client.id)]
                   /\ ops' = [ops EXCEPT ![NewCall] =
                                IF g.thrown \/ g.err THEN Done ELSE op]
                   /\ callback' = IF g.err /\ ~g.thrown
                                  THEN CallbackErr(NewCall, op, g.value)
                                  ELSE NoCallback
                   /\ UNCHANGED <<subsStore, packetsStore, written, expiry>>
    /\ UNCHANGED <<enqueued, restored>>
    /\ UNCHANGED <<retainedStore, inbox, _uuid, status, left, ready, newSubs, restarts,
                   latest, scans, appended>>

\* del [key], then done(err, subscriptions)
lookupSubscriptionsDel(i) ==
    /\ ops[i].pc = "series"
    /\ \E err \in Errs :
          /\ Spent(err)
          /\ request' = Request(i, "del", err, FALSE)
          /\ IF err
             THEN /\ refused(i, "del", TRUE, ops[i].subscriptions)
                  /\ UNCHANGED <<subsStore, written, expiry>>
             ELSE /\ subsStore' = [subsStore EXCEPT ![SubsKey(ops[i].client.id)] = Nil]
                  /\ written' = [written EXCEPT ![SubsKey(ops[i].client.id)] = Nil]
                  /\ expiry' = [expiry EXCEPT !.subs[SubsKey(ops[i].client.id)] = Nil]
                  /\ answered(i, "del", TRUE, ops[i].subscriptions)
    /\ UNCHANGED <<enqueued, restored>>
    /\ UNCHANGED <<packetsStore, retainedStore, inbox, _subMatcher, _uuid, status, left,
                   ready, newSubs, calls, restarts, latest, scans, appended>>

(* --------------------------- offline packet queue --------------------- *)
\* the packet the broker hands over for a publish on topic
Packet(topic, messageId) ==
    [topic |-> topic, qos |-> 0, payload |-> Payload, messageId |-> messageId]

\* a push at the end from which rpop takes
rpush(list, element) == Append(list, element)

\* lpush: the new element becomes the head of the list
lpush(list, element) == <<element>> \o list
\* an rpop that replies with the last element and leaves it in the list
rpopKeep(list) == list

\* rpop: the reply is the last element of the list, or Nil
rpopReply(list) == IF list = <<>> THEN Nil ELSE Some(list[Len(list)])
rpopRest(list) == IF list = <<>> THEN <<>> ELSE SubSeq(list, 1, Len(list) - 1)

\* a storeOfflinePacket that queues for every id of the Matcher, whatever the topic
storeOfflineEveryone(n, packet) == { e[2] : e \in _subMatcher[n] }

\* the clients storeOfflinePacket hands to _storePacket
storeOfflineMatches(n, packet) == MatcherMatch(_subMatcher[n], packet.topic)

\* storeOfflinePacket: match now, then one _storePacket per match through
\* async.each, which calls done at once for an empty list
Enqueued(op) == [node |-> op.node, packet |-> Val(op.packet)]

storeOfflinePacket(n, topic) ==
    /\ CanCall(n)
    /\ calls' = NewCall
    /\ LET packet == Packet(topic, NewCall)
           matches == storeOfflineMatches(n, packet)
           op == [NoOp EXCEPT !.kind = "storeOfflinePacket", !.node = n,
                              !.packet = Some(packet), !.matches = matches,
                              !.targets = matches, !.pc = "each"]
       IN  IF matches = {}
           THEN /\ ops' = [ops EXCEPT ![NewCall] = Done]
                /\ callback' = Callback(NewCall, op, Nil)
                /\ enqueued' = enqueued \cup {Enqueued(op)}
           ELSE /\ ops' = [ops EXCEPT ![NewCall] = op]
                /\ callback' = NoCallback
                /\ UNCHANGED enqueued
    /\ request' = NoRequest
    /\ UNCHANGED <<faults, expiry, restored>>
    /\ UNCHANGED <<subsStore, packetsStore, retainedStore, inbox, _subMatcher, _uuid,
                   status, left, ready, newSubs, restarts, latest, scans, appended, written>>

\* the list _storePacket leaves under the backlog key of client
_storePacketList(list, packet) == lpush(list, StringifyPacket(packet))

\* _storePacket(client, packet, cb): lpush [packets + client, JSON.stringify(packet)];
\* async.each calls done after the last reply, or with the first error
_storePacket(i, client) ==
    /\ ops[i].pc = "each"
    /\ client \in ops[i].targets
    /\ \E err \in Errs :
          /\ Spent(err)
          /\ request' = Request(i, "lpush", err, FALSE)
          /\ IF err
             THEN /\ UNCHANGED <<packetsStore, appended, enqueued>>
                  /\ ops' = IF ops[i].targets = {client}
                            THEN [ops EXCEPT ![i] = Done]
                            ELSE [ops EXCEPT ![i].targets = @ \ {client},
                                             ![i].failed = TRUE]
                  /\ callback' = IF ~ops[i].failed THEN CallbackErr(i, ops[i], Nil)
                                 ELSE NoCallback
             ELSE /\ packetsStore' = [packetsStore EXCEPT ![client] =
                                        _storePacketList(@, Val(ops[i].packet))]
                  /\ appended' = [appended EXCEPT ![client] =
                                    Append(@, Val(ops[i].packet).messageId)]
                  /\ IF ops[i].targets = {client}
                     THEN /\ ops' = [ops EXCEPT ![i] = Done]
                          /\ IF ops[i].failed
                             THEN callback' = NoCallback /\ UNCHANGED enqueued
                             ELSE /\ callback' = Callback(i, ops[i], Nil)
                                  /\ enqueued' = enqueued \cup {Enqueued(ops[i])}
                     ELSE /\ ops' = [ops EXCEPT ![i].targets = @ \ {client}]
                          /\ callback' = NoCallback
                          /\ UNCHANGED enqueued
    /\ UNCHANGED <<expiry, restored>>
    /\ UNCHANGED <<subsStore, retainedStore, inbox, _subMatcher, _uuid, status, left,
                   ready, newSubs, calls, restarts, latest, scans, written>>

\* streamOfflinePackets(client, cb): cleanup without a done for a clean session,
\* otherwise the first rpop is issued
streamOfflinePackets(n, client) ==
    /\ CanCall(n)
    /\ calls' = NewCall
    /\ IF client.clean
       THEN _cleanClient(n, client, "streamOfflinePackets")
       ELSE /\ ops' = [ops EXCEPT ![NewCall] =
                         [NoOp EXCEPT !.kind = "streamOfflinePackets", !.node = n,
                                      !.client = client, !.pc = "rpop"]]
            /\ callback' = NoCallback
            /\ request' = NoRequest
            /\ UNCHANGED <<subsStore, packetsStore, written, _subMatcher, faults, expiry>>
    /\ UNCHANGED <<enqueued, restored>>
    /\ UNCHANGED <<retainedStore, inbox, _uuid, status, left, ready, newSubs, restarts,
                   latest, scans, appended>>

\* rpop of the backlog key and its callback, which ignores err: a packet goes to
\* cb and the next rpop is issued; an empty reply ends the operation without a
\* callback
streamOfflinePacketsRpop(i) ==
    /\ ops[i].pc = "rpop"
    /\ \E err \in Errs :
          LET list == packetsStore[ops[i].client.id]
              result == IF err THEN Nil ELSE rpopReply(list)
          IN  /\ Spent(err)
              /\ request' = Request(i, "rpop", err, FALSE)
              /\ packetsStore' = [packetsStore EXCEPT ![ops[i].client.id] =
                                    IF err THEN list ELSE rpopRest(list)]
              /\ expiry' = [expiry EXCEPT !.packets[ops[i].client.id] =
                              IF ~err /\ rpopRest(list) = <<>> THEN Nil ELSE @]
              /\ IF result # Nil
                 THEN /\ callback' = Callback(i, ops[i], RestorePacket(Val(result)))
                      /\ ops' = [ops EXCEPT ![i].delivered =
                                   Append(@, ParsePacket(Val(result)).messageId)]
                 ELSE /\ ops' = [ops EXCEPT ![i] = Done]
                      /\ callback' = NoCallback
    /\ UNCHANGED <<enqueued, restored>>
    /\ UNCHANGED <<subsStore, retainedStore, inbox, _subMatcher, _uuid, status, left,
                   ready, newSubs, calls, restarts, latest, scans, appended, written>>

(* --------------------------- retained message store ------------------ *)
\* the patterns and topics lookupRetained is called with
RetainedPatterns == Topics \cup {<<"a", "+">>, <<"a", "#">>}

\* an hset that keeps the value of a field that exists (hsetnx)
hsetnx(hash, packet) ==
    IF hash[packet.topic] = Nil THEN [hash EXCEPT ![packet.topic] = Some(StringifyPacket(packet))]
    ELSE hash

\* hset [retained, packet.topic, JSON.stringify(packet)]: the field is overwritten
hset(hash, packet) == [hash EXCEPT ![packet.topic] = Some(StringifyPacket(packet))]

\* storeRetained(packet, cb): the hset and its callback
storeRetained(n, topic) ==
    /\ CanCall(n)
    /\ calls' = NewCall
    /\ \E err \in Errs :
          LET packet == Packet(topic, NewCall)
              op == [NoOp EXCEPT !.kind = "storeRetained", !.node = n,
                                 !.packet = Some(packet)]
          IN  /\ Spent(err)
              /\ request' = Request(NewCall, "hset", err, FALSE)
              /\ ops' = [ops EXCEPT ![NewCall] = Done]
              /\ IF err
                 THEN /\ callback' = CallbackErr(NewCall, op, Nil)
                      /\ UNCHANGED <<retainedStore, latest>>
                 ELSE /\ retainedStore' = hset(retainedStore, packet)
                      /\ latest' = [latest EXCEPT ![topic] = Some(packet)]
                      /\ callback' = Callback(NewCall, op, Nil)
    /\ UNCHANGED <<expiry, enqueued, restored>>
    /\ UNCHANGED <<subsStore, packetsStore, inbox, _subMatcher, _uuid, status, left,
                   ready, newSubs, restarts, scans, appended, written>>

\* pattern.indexOf("#") >= 0 || pattern.indexOf("+") >= 0
hasWildcard(pattern) == \E i \in DOMAIN pattern : pattern[i] \in {"#", "+"}

\* the inner match(topic, cb) of lookupRetained: what the hget reply adds to matched
matchReply(matched, packet) ==
    IF packet # Nil THEN Append(matched, RestorePacket(Val(packet))) ELSE matched

\* a fan-out over every field of the hash, without the filter
filterTopicsNone(hash, pattern) == { t \in DOMAIN hash : hash[t] # Nil }

\* the topics left by the filter over the hkeys reply, with a Matcher holding pattern
filterTopics(hash, pattern) ==
    { topic \in { t \in DOMAIN hash : hash[t] # Nil } :
        MatcherMatch(MatcherAdd({}, pattern, TRUE), topic) # {} }

\* lookupRetained(pattern, done): the hkeys and the fan-out for a pattern with a
\* wildcard, otherwise the hget of the topic and done; topics.sort() throws on
\* the missing reply of a failed hkeys
lookupRetained(n, pattern) ==
    /\ CanCall(n)
    /\ calls' = NewCall
    /\ \E err \in Errs :
          LET op == [NoOp EXCEPT !.kind = "lookupRetained", !.node = n,
                                 !.pattern = pattern]
          IN  /\ Spent(err)
              /\ IF hasWildcard(pattern)
                 THEN LET topics == filterTopics(retainedStore, pattern)
                      IN  /\ request' = Request(NewCall, "hkeys", err, err)
                          /\ scans' = scans + 1
                          /\ IF err \/ topics = {}
                             THEN /\ ops' = [ops EXCEPT ![NewCall] = Done]
                                  /\ callback' = IF err THEN NoCallback
                                                 ELSE Callback(NewCall, op, <<>>)
                             ELSE /\ ops' = [ops EXCEPT ![NewCall] =
                                               [op EXCEPT !.fanout = topics,
                                                          !.topics = topics,
                                                          !.pc = "each"]]
                                  /\ callback' = NoCallback
                 ELSE /\ request' = Request(NewCall, "hget", err, FALSE)
                      /\ ops' = [ops EXCEPT ![NewCall] = Done]
                      /\ callback' = IF err THEN CallbackErr(NewCall, op, <<>>)
                                     ELSE Callback(NewCall, op,
                                                   matchReply(<<>>, retainedStore[pattern]))
                      /\ UNCHANGED scans
    /\ UNCHANGED <<expiry, enqueued, restored>>
    /\ UNCHANGED <<subsStore, packetsStore, retainedStore, inbox, _subMatcher, _uuid,
                   status, left, ready, newSubs, restarts, latest, appended, written>>

\* one hget of the fan-out and its callback cb(err, matched); async.each calls
\* done(err, matched) after the last one, or with the first error
lookupRetainedHget(i, topic) ==
    /\ ops[i].kind = "lookupRetained"
    /\ ops[i].pc = "each"
    /\ topic \in ops[i].topics
    /\ \E err \in Errs :
          LET matched == IF err THEN ops[i].matched
                         ELSE matchReply(ops[i].matched, retainedStore[topic])
          IN  /\ Spent(err)
              /\ request' = Request(i, "hget", err, FALSE)
              /\ ops' = IF ops[i].topics = {topic}
                        THEN [ops EXCEPT ![i] = Done]
                        ELSE [ops EXCEPT ![i].topics = @ \ {topic},
                                         ![i].matched = matched,
                                         ![i].failed = @ \/ err]
              /\ callback' = IF ops[i].failed THEN NoCallback
                             ELSE IF err THEN CallbackErr(i, ops[i], matched)
                             ELSE IF ops[i].topics = {topic} THEN Callback(i, ops[i], matched)
                             ELSE NoCallback
    /\ UNCHANGED <<expiry, enqueued, restored>>
    /\ UNCHANGED <<subsStore, packetsStore, retainedStore, inbox, _subMatcher, _uuid,
                   status, left, ready, newSubs, calls, restarts, latest, scans,
                   appended, written>>

(* ------------------------------ the store ----------------------------- *)
\* another writer of the shared store leaves under a subscription key a value
\* that is not the JSON of a map
corrupt(key, value) ==
    /\ subsStore[key] # Some(value)
    /\ subsStore' = [subsStore EXCEPT ![key] = Some(value)]
    /\ written' = [written EXCEPT ![key] = Nil]
    /\ expiry' = [expiry EXCEPT !.subs[key] = Nil]
    /\ callback' = NoCallback
    /\ request' = NoRequest
    /\ UNCHANGED <<faults, enqueued, restored>>
    /\ UNCHANGED <<packetsStore, retainedStore, inbox, _subMatcher, _uuid, status, left,
                   ready, newSubs, ops, calls, restarts, latest, scans, appended>>

\* an eviction that the nodes notice: each drops the entries of the key's client
expireAndForget(key) ==
    /\ expiry.subs[key] # Nil
    /\ subsStore' = [subsStore EXCEPT ![key] = Nil]
    /\ written' = [written EXCEPT ![key] = Nil]
    /\ expiry' = [expiry EXCEPT !.subs[key] = Nil]
    /\ _subMatcher' = [n \in Nodes |-> { e \in _subMatcher[n] : e[2] # KeyId(key) }]
    /\ callback' = NoCallback
    /\ request' = NoRequest
    /\ UNCHANGED <<faults, enqueued, restored>>
    /\ UNCHANGED <<packetsStore, retainedStore, inbox, _uuid, status, left,
                   ready, newSubs, ops, calls, restarts, latest, scans, appended>>

\* the PX time of a subscription record runs out: the store evicts the key
expire(key) ==
    /\ expiry.subs[key] # Nil
    /\ subsStore' = [subsStore EXCEPT ![key] = Nil]
    /\ written' = [written EXCEPT ![key] = Nil]
    /\ expiry' = [expiry EXCEPT !.subs[key] = Nil]
    /\ callback' = NoCallback
    /\ request' = NoRequest
    /\ UNCHANGED <<faults, enqueued, restored>>
    /\ UNCHANGED <<packetsStore, retainedStore, inbox, _subMatcher, _uuid, status, left,
                   ready, newSubs, ops, calls, restarts, latest, scans, appended>>

(* ------------------------------ behaviours ---------------------------- *)
\* the steps of the cluster sync protocol
Sync ==
    \/ \E n \in Nodes : subscribe(n)
    \/ \E t \in newSubs : newSubRead(t)
    \/ \E n \in Nodes : message(n)

\* the store requests that operations already called have pending
Requests ==
    \/ \E i \in Calls : storeSubscriptionsSet(i)
    \/ \E i \in Calls : storeSubscriptionsPublish(i)
    \/ \E i \in Calls : lookupSubscriptionsDel(i)
    \/ \E i \in Calls, r \in {"delSubs", "delPackets"} : _cleanClientDel(i, r)
    \/ \E i \in Calls, client \in Ids : _storePacket(i, client)
    \/ \E i \in Calls : streamOfflinePacketsRpop(i)
    \/ \E i \in Calls, topic \in Topics : lookupRetainedHget(i, topic)

\* the broker calls any operation on any node with any session
Next ==
    \/ Sync
    \/ Requests
    \/ \E n \in Nodes : restart(n)
    \/ calls < MaxCalls /\ \E n \in Nodes, client \in Clients : storeSubscriptions(n, client)
    \/ calls < MaxCalls /\ \E n \in Nodes, client \in Sessions : lookupSubscriptions(n, client)
    \/ calls < MaxCalls /\ \E n \in Nodes, topic \in Topics : storeOfflinePacket(n, topic)
    \/ calls < MaxCalls /\ \E n \in Nodes, client \in Sessions : streamOfflinePackets(n, client)
    \/ calls < MaxCalls /\ \E n \in Nodes, topic \in Topics : storeRetained(n, topic)
    \/ calls < MaxCalls /\ \E n \in Nodes, pattern \in RetainedPatterns : lookupRetained(n, pattern)

Spec == Init /\ [][Next]_vars

\* the sessions of client "c"
ClientsOfC == { client \in Clients : client.id = <<"c">> }
SessionsOfC == { client \in Sessions : client.id = <<"c">> }

\* only node A is up; its broker stores and looks up the subscriptions of client "c"
NextSubs ==
    \/ subscribe("A")
    \/ message("A")
    \/ \E i \in Calls : storeSubscriptionsSet(i)
    \/ \E i \in Calls : storeSubscriptionsPublish(i)
    \/ \E i \in Calls : lookupSubscriptionsDel(i)
    \/ \E i \in Calls, r \in {"delSubs", "delPackets"} : _cleanClientDel(i, r)
    \/ calls < MaxSubsCalls /\ \E client \in ClientsOfC : storeSubscriptions("A", client)
    \/ calls < MaxSubsCalls /\ \E client \in SessionsOfC : lookupSubscriptions("A", client)

SpecSubs == Init /\ [][NextSubs]_vars

\* only node A is up; its broker stores the subscriptions of client "c", queues
\* packets, drains the backlog and cleans up
NextQueue ==
    \/ subscribe("A")
    \/ message("A")
    \/ \E i \in Calls : storeSubscriptionsSet(i)
    \/ \E i \in Calls : storeSubscriptionsPublish(i)
    \/ \E i \in Calls, r \in {"delSubs", "delPackets"} : _cleanClientDel(i, r)
    \/ \E i \in Calls, client \in Ids : _storePacket(i, client)
    \/ \E i \in Calls : streamOfflinePacketsRpop(i)
    \/ calls < MaxQueueCalls /\ Idle
         /\ \E client \in { c \in ClientsOfC : ~c.clean } : storeSubscriptions("A", client)
    \/ calls < MaxQueueCalls /\ Idle
         /\ \E client \in { c \in SessionsOfC : c.clean } : lookupSubscriptions("A", client)
    \/ calls < MaxQueueCalls /\ \E topic \in Topics : storeOfflinePacket("A", topic)
    \/ calls < MaxQueueCalls /\ \E client \in SessionsOfC : streamOfflinePackets("A", client)

SpecQueue == Init /\ [][NextQueue]_vars

\* every node has confirmed its channel subscription and fired its ready callback
Up == \A n \in Nodes : status[n] = "active"

\* both nodes are up before the brokers call; the broker of A stores subscriptions,
\* the broker of B queues packets, and both drain backlogs
NextSync ==
    \/ Sync
    \/ \E i \in Calls : storeSubscriptionsSet(i)
    \/ \E i \in Calls : storeSubscriptionsPublish(i)
    \/ \E i \in Calls, client \in Ids : _storePacket(i, client)
    \/ \E i \in Calls : streamOfflinePacketsRpop(i)
    \/ calls < MaxSyncCalls /\ Idle /\ Up
         /\ \E client \in { c \in Clients : ~c.clean } : storeSubscriptions("A", client)
    \/ calls < MaxSyncCalls /\ Idle /\ Up
         /\ \E topic \in Topics : storeOfflinePacket("B", topic)
    \/ calls < MaxSyncCalls /\ Idle /\ Up
         /\ \E n \in Nodes, client \in { c \in Sessions : ~c.clean } :
              streamOfflinePackets(n, client)

SpecSync == Init /\ [][NextSync]_vars

\* both nodes are up and B is restarted; the broker of A stores subscriptions, the
\* broker of B queues packets and drains backlogs
NextRestart ==
    \/ Sync
    \/ restart("B")
    \/ \E i \in Calls : storeSubscriptionsSet(i)
    \/ \E i \in Calls : storeSubscriptionsPublish(i)
    \/ \E i \in Calls, client \in Ids : _storePacket(i, client)
    \/ \E i \in Calls : streamOfflinePacketsRpop(i)
    \/ calls < MaxRestartCalls /\ Idle
         /\ \E client \in { c \in Clients : ~c.clean } : storeSubscriptions("A", client)
    \/ calls < MaxRestartCalls /\ Idle /\ \E topic \in Topics : storeOfflinePacket("B", topic)
    \/ calls < MaxRestartCalls /\ Idle
         /\ \E client \in { c \in Sessions : ~c.clean } : streamOfflinePackets("B", client)

SpecRestart == Init /\ [][NextRestart]_vars

\* the retained message store alone
NextRetained ==
    \/ \E n \in Nodes : subscribe(n)
    \/ \E i \in Calls, topic \in Topics : lookupRetainedHget(i, topic)
    \/ calls < MaxRetainedCalls /\ \E n \in Nodes, topic \in Topics : storeRetained(n, topic)
    \/ calls < MaxRetainedCalls
         /\ \E n \in Nodes, pattern \in RetainedPatterns : lookupRetained(n, pattern)

SpecRetained == Init /\ [][NextRetained]_vars

\* the broker of A stores sessions while B joins at any time and other writers
\* leave malformed records under the subscription keys
NextResync ==
    \/ Sync
    \/ \E i \in Calls : storeSubscriptionsSet(i)
    \/ \E i \in Calls : storeSubscriptionsPublish(i)
    \/ \E key \in SubsKeys, value \in Malformed : corrupt(key, value)
    \/ calls < MaxResyncCalls /\ Idle
         /\ \E client \in { c \in Clients : ~c.clean } : storeSubscriptions("A", client)

SpecResync == Init /\ [][NextResync]_vars

\* both nodes are up; the broker of A stores and looks up sessions, the broker of
\* B queues packets, and the store evicts records whose time has run out
NextExpiry ==
    \/ Sync
    \/ \E i \in Calls : storeSubscriptionsSet(i)
    \/ \E i \in Calls : storeSubscriptionsPublish(i)
    \/ \E i \in Calls : lookupSubscriptionsDel(i)
    \/ \E i \in Calls, r \in {"delSubs", "delPackets"} : _cleanClientDel(i, r)
    \/ \E i \in Calls, client \in Ids : _storePacket(i, client)
    \/ \E key \in SubsKeys : expire(key)
    \/ calls < MaxExpiryCalls /\ Idle /\ Up
         /\ \E client \in { c \in Clients : ~c.clean } : storeSubscriptions("A", client)
    \/ calls < MaxExpiryCalls /\ Idle /\ Up
         /\ \E client \in Sessions : lookupSubscriptions("B", client)
    \/ calls < MaxExpiryCalls /\ Idle /\ Up
         /\ \E topic \in Topics : storeOfflinePacket("B", topic)

SpecExpiry == Init /\ [][NextExpiry]_vars

\* the broker of A stores sessions while B joins at any time and records expire
NextStartup ==
    \/ Sync
    \/ \E i \in Calls : storeSubscriptionsSet(i)
    \/ \E i \in Calls : storeSubscriptionsPublish(i)
    \/ \E key \in SubsKeys : expire(key)
    \/ calls < MaxStartupCalls /\ Idle
         /\ \E client \in { c \in Clients : ~c.clean } : storeSubscriptions("A", client)

SpecStartup == Init /\ [][NextStartup]_vars

\* the same, against a store that fails up to MaxStartupFaults requests
InitStartup == Start(MaxStartupFaults)

SpecStartupFaults == InitStartup /\ [][NextStartup]_vars

\* both nodes are up; the broker of A stores the session of client "c" that holds
\* a/#, and the brokers of both nodes queue packets and start drains of client "c"
\* without waiting for one another
NextDrains ==
    \/ Sync
    \/ \E i \in Calls : storeSubscriptionsSet(i)
    \/ \E i \in Calls : storeSubscriptionsPublish(i)
    \/ \E i \in Calls, client \in Ids : _storePacket(i, client)
    \/ \E i \in Calls : streamOfflinePacketsRpop(i)
    \/ calls < MaxDrainCalls /\ calls = 0 /\ Up
         /\ \E client \in { c \in ClientsOfC : ~c.clean /\ Len(c.subscriptions) = 1 } :
              storeSubscriptions("A", client)
    \/ calls < MaxDrainCalls /\ calls > 0 /\ Up
         /\ \E n \in Nodes, topic \in Topics : storeOfflinePacket(n, topic)
    \/ calls < MaxDrainCalls /\ calls > 0 /\ Up
         /\ \E n \in Nodes, client \in { c \in SessionsOfC : ~c.clean } :
              streamOfflinePackets(n, client)

SpecDrains == Init /\ [][NextDrains]_vars

\* node A alone, against a store that fails some requests and holds malformed
\* records: its broker calls every public operation for client "c"
NextFaults ==
    \/ subscribe("A")
    \/ message("A")
    \/ Requests
    \/ \E value \in Malformed : corrupt(SubsKey(<<"c">>), value)
    \/ calls < MaxFaultCalls /\ Idle
         /\ \E client \in ClientsOfC : storeSubscriptions("A", client)
    \/ calls < MaxFaultCalls /\ Idle
         /\ \E client \in SessionsOfC : lookupSubscriptions("A", client)
    \/ calls < MaxFaultCalls /\ Idle /\ \E topic \in Topics : storeOfflinePacket("A", topic)
    \/ calls < MaxFaultCalls /\ Idle
         /\ \E client \in SessionsOfC : streamOfflinePackets("A", client)
    \/ calls < MaxFaultCalls /\ Idle /\ \E topic \in Topics : storeRetained("A", topic)
    \/ calls < MaxFaultCalls /\ Idle
         /\ \E pattern \in RetainedPatterns : lookupRetained("A", pattern)

\* the store fails up to MaxFaults requests
InitFaults == Start(MaxFaults)

SpecFaults == InitFaults /\ [][NextFaults]_vars

(* ------------------------------ properties ---------------------------- *)
\* the entries of a session's subscriptions that storeSubscriptions persists
Granted(subscriptions) == { s \in Range(subscriptions) : s.qos > 0 }
\* the Matcher entries of client id for the persisted entries of a session
GrantedEntries(subscriptions, id) == { <<s.pattern, id>> : s \in Granted(subscriptions) }
\* the position of messageId m in the order in which a backlog received its packets
Position(order, m) == CHOOSE k \in DOMAIN order : order[k] = m
\* the messageIds a backlog list holds
Backlog(list) == { ParsePacket(e).messageId : e \in Range(list) }
\* how often messageId m was pushed to a backlog
Count(order, m) == Cardinality({ k \in DOMAIN order : order[k] = m })
\* the operation that calls back in this state, if any
Completed(kind) == callback.call # 0 /\ callback.op.kind = kind

\* C1: a lookupSubscriptions of a non-clean client C removes, for the record that
\* storeSubscriptions wrote for session S, every (pattern, C) of the qos > 0
\* patterns of S from the Matcher of its node, hands back exactly the qos > 0
\* entries of S, and leaves the key deleted; a lookup that finds no record hands
\* back the empty map.
C1_RoundTrip ==
    [][\A i \in Calls :
         /\ (ops[i].pc = "none" /\ ops'[i].pc = "series") =>
              LET op == ops'[i]
              IN  /\ ~op.client.clean
                  /\ (op.source = Nil) <=> (subsStore[SubsKey(op.client.id)] = Nil)
                  /\ op.source # Nil =>
                       GrantedEntries(Val(op.source).subscriptions, op.client.id)
                         \cap _subMatcher'[op.node] = {}
         /\ (ops[i].pc = "series" /\ ops'[i].pc = "done") =>
              /\ callback'.call = i
              /\ callback'.op = ops[i]
              /\ Range(callback'.value) =
                   IF ops[i].source = Nil THEN {}
                   ELSE Granted(Val(ops[i].source).subscriptions)
              /\ Len(callback'.value) = Cardinality(Range(callback'.value))
              /\ subsStore'[SubsKey(ops[i].client.id)] = Nil
      ]_vars

\* C1 witness: a lookupSubscriptions on the node that stored the session hands back
\* a non-empty map, the Matcher holds none of its patterns for the client and
\* the key is gone
C1_Witness ==
    /\ Completed("lookupSubscriptions")
    /\ ~callback.op.client.clean
    /\ callback.value # <<>>
    /\ callback.op.source # Nil
    /\ Val(callback.op.source).node = callback.op.node
    /\ Granted(Val(callback.op.source).subscriptions) # Range(Val(callback.op.source).subscriptions)
    /\ subsStore[SubsKey(callback.op.client.id)] = Nil
    /\ \A e \in _subMatcher[callback.op.node] : e[2] # callback.op.client.id

\* C2: streamOfflinePackets hands the packets of a backlog to its callback oldest
\* first: each packet handed over is the one that was pushed earliest among those
\* the backlog holds, it leaves the backlog, and it arrives with its payload as a
\* Buffer; the packets one drain hands over are in the order they were pushed;
\* a pop that finds the backlog empty ends the drain without a callback, and an
\* operation that has ended never calls back.
C2_Fifo ==
    [][\A i \in Calls :
         LET c == ops[i].client.id
         IN  /\ (callback'.call = i /\ callback'.op.kind = "streamOfflinePackets") =>
                  LET m == callback'.value.messageId
                  IN  /\ ops[i].pc = "rpop"
                      /\ m \in Backlog(packetsStore[c])
                      /\ \A m2 \in Backlog(packetsStore[c]) :
                           Position(appended[c], m) <= Position(appended[c], m2)
                      /\ Backlog(packetsStore'[c]) = Backlog(packetsStore[c]) \ {m}
                      /\ callback'.value = Packet(callback'.value.topic, m)
                      /\ ops'[i].delivered = Append(ops[i].delivered, m)
             /\ ops'[i].pc = "rpop" =>
                  \A j, k \in DOMAIN ops'[i].delivered :
                     j < k => Position(appended'[c], ops'[i].delivered[j])
                                < Position(appended'[c], ops'[i].delivered[k])
             /\ (ops[i].pc = "rpop" /\ ops'[i] # ops[i]) =>
                  IF packetsStore[c] = <<>>
                  THEN ops'[i] = Done /\ callback' = NoCallback
                  ELSE ops'[i].pc = "rpop" /\ callback'.call = i
             /\ callback'.call = i => ops[i].pc # "done"
      ]_vars

\* C2 witness: a drain hands over the second of two packets
C2_Witness ==
    /\ Completed("streamOfflinePackets")
    /\ Len(ops[callback.call].delivered) = 2

\* the client id a subscription key was built from
ClientOf(key) == SubSeq(key, 3, Len(key))
\* the clients node n holds under a pattern that matches topic
Holds(n, topic) == { X \in Ids : \E e \in _subMatcher[n] : e[2] = X /\ Matches(e[1], topic) }
\* node n has no SyncNotice to handle and no read of a record pending
SyncQuiet(n) == inbox[n] = <<>> /\ \A t \in newSubs : t.node # n
\* call i is made in this step and is a storeOfflinePacket
Enqueues(i) ==
    /\ ops[i].pc = "none"
    /\ calls' = i
    /\ \/ ops'[i].kind = "storeOfflinePacket"
       \/ callback'.call = i /\ callback'.op.kind = "storeOfflinePacket"
\* the operation record of the storeOfflinePacket that call i makes in this step
EnqueueOp(i) == IF ops'[i].pc = "each" THEN ops'[i] ELSE callback'.op

C4_Restore ==
    [][/\ \A n \in Nodes :
            (status[n] = "resync" /\ status'[n] = "active") =>
               \A r \in restored'[n] : \A P \in Keys(r[2]) :
                  <<P, ClientOf(r[1])>> \in _subMatcher'[n]
       /\ \A i \in Calls :
            Enqueues(i) =>
               \A r \in restored[EnqueueOp(i).node] :
                  (\E P \in Keys(r[2]) : Matches(P, Val(EnqueueOp(i).packet).topic))
                    => ClientOf(r[1]) \in EnqueueOp(i).matches
      ]_vars

\* C5: a storeSubscriptions of a clean session calls done at once, in the call
\* itself, and changes nothing: no key is written, no Matcher is modified, no
\* SyncNotice is published and no request is left pending.
C5_CleanStore ==
    [][\A i \in Calls :
         /\ ops'[i].kind = "storeSubscriptions" => ~ops'[i].client.clean
         /\ ( /\ callback'.call = i
              /\ callback'.op.kind = "storeSubscriptions"
              /\ callback'.op.client.clean ) =>
              /\ ops[i].pc = "none"
              /\ calls' = i
              /\ ops'[i] = Done
              /\ callback'.value = Nil
              /\ UNCHANGED <<subsStore, packetsStore, retainedStore, inbox, _subMatcher,
                             newSubs, written>>
      ]_vars

\* C5 witness: a clean session with subscriptions is stored while the record of
\* an earlier session of the client is persisted and the Matcher holds the client
C5_Witness ==
    /\ Completed("storeSubscriptions")
    /\ callback.op.client.clean
    /\ Granted(callback.op.client.subscriptions) # {}
    /\ subsStore[SubsKey(callback.op.client.id)] # Nil
    /\ \E e \in _subMatcher[callback.op.node] : e[2] = callback.op.client.id

\* C6: lookupSubscriptions and streamOfflinePackets of a clean session run the
\* cleanup: its read removes from the Matcher of the node exactly the
\* (pattern, client) entries of the persisted record, its two del requests leave
\* the subscription key and the backlog key deleted, lookupSubscriptions then
\* hands back the empty map, and streamOfflinePackets never calls its callback.
C6_CleanSession ==
    [][/\ callback'.op.kind = "streamOfflinePackets" => ~callback'.op.client.clean
       /\ \A i \in Calls :
            /\ ( /\ ops'[i].kind \in {"lookupSubscriptions", "streamOfflinePackets"}
                 /\ ops'[i].client.clean ) => ops'[i].pc = "clean"
            /\ (ops[i].pc = "none" /\ ops'[i].pc = "clean") =>
                 LET op == ops'[i]
                     removed == IF op.source = Nil THEN {}
                                ELSE GrantedEntries(Val(op.source).subscriptions,
                                                    op.client.id)
                 IN  /\ op.client.clean
                     /\ (op.source = Nil) <=> (subsStore[SubsKey(op.client.id)] = Nil)
                     /\ _subMatcher'[op.node] = _subMatcher[op.node] \ removed
                     /\ op.todo = {"delSubs", "delPackets"}
            /\ (ops[i].pc = "clean" /\ "delSubs" \in ops[i].todo \ ops'[i].todo) =>
                 subsStore'[SubsKey(ops[i].client.id)] = Nil
            /\ (ops[i].pc = "clean" /\ "delPackets" \in ops[i].todo \ ops'[i].todo) =>
                 packetsStore'[ops[i].client.id] = <<>>
            /\ (ops[i].pc = "clean" /\ ops'[i].pc = "done") =>
                 callback' = IF ops[i].kind = "lookupSubscriptions"
                             THEN Callback(i, ops[i], <<>>)
                             ELSE NoCallback
      ]_vars

\* C6 witness: the third call is a lookupSubscriptions of a clean session that
\* found a record and a backlog with a packet, and has deleted both
C6_Witness ==
    /\ Completed("lookupSubscriptions")
    /\ callback.op.client.clean
    /\ callback.call = 3
    /\ callback.op.source # Nil
    /\ appended[callback.op.client.id] # <<>>
    /\ packetsStore[callback.op.client.id] = <<>>
    /\ subsStore[SubsKey(callback.op.client.id)] = Nil
    /\ \A e \in _subMatcher[callback.op.node] : e[2] # callback.op.client.id

\* C7: storeOfflinePacket hands the packet to the clients that match(packet.topic)
\* of the Matcher of its node gives when it is called; each of its pushes puts the
\* packet at the head of the backlog of one of them and changes no other backlog;
\* when it calls done every one of them has received the packet exactly once,
\* however many of its patterns match, and no other client has received it.
C7_Enqueue ==
    [][\A i \in Calls :
         /\ Enqueues(i) =>
              /\ EnqueueOp(i).matches =
                   { e[2] : e \in { x \in _subMatcher[EnqueueOp(i).node] :
                                      Matches(x[1], Val(EnqueueOp(i).packet).topic) } }
              /\ EnqueueOp(i).targets = EnqueueOp(i).matches
              /\ Val(EnqueueOp(i).packet).messageId = i
              /\ UNCHANGED <<packetsStore, appended>>
         /\ (ops[i].kind = "storeOfflinePacket" /\ ops'[i] # ops[i]) =>
              \E X \in ops[i].targets :
                 /\ packetsStore' = [packetsStore EXCEPT ![X] =
                                       <<StringifyPacket(Val(ops[i].packet))>> \o @]
                 /\ appended' = [appended EXCEPT ![X] = Append(@, i)]
                 /\ IF ops[i].targets = {X} THEN callback'.call = i
                    ELSE ops'[i].targets = ops[i].targets \ {X}
         /\ (callback'.call = i /\ callback'.op.kind = "storeOfflinePacket") =>
              \A X \in Ids :
                 Count(appended'[X], i) = IF X \in callback'.op.matches THEN 1 ELSE 0
      ]_vars

\* C7 witness: a storeOfflinePacket completes on a node that holds a client under
\* two patterns that match the topic, and the client has received the packet once
C7_Witness ==
    /\ Completed("storeOfflinePacket")
    /\ \E X \in Ids :
          /\ Cardinality({ e \in _subMatcher[callback.op.node] :
                             e[2] = X /\ Matches(e[1], Val(callback.op.packet).topic) }) = 2
          /\ Count(appended[X], callback.call) = 1

\* every node is active and nothing is in flight: no operation, no SyncNotice,
\* no read of a record
Quiescent ==
    /\ Idle
    /\ newSubs = {}
    /\ \A n \in Nodes : status[n] = "active" /\ inbox[n] = <<>>

\* C8: in a quiescent state, on every node, client C is in the Matcher under
\* pattern P if and only if the persisted record of C has P.
C8_Agreement ==
    Quiescent =>
       \A n \in Nodes, C \in ClientIds, P \in UNION { Keys(m) : m \in SubscriptionMaps } :
          (<<P, C>> \in _subMatcher[n])
            <=> (\E s \in Range(ParseOrEmpty(subsStore[SubsKey(C)])) :
                    s.pattern = P /\ s.qos > 0)

\* C9: lookupRetained of a pattern without a wildcard answers in the call itself
\* from one fetch of that topic, without enumerating the hash: it hands back the
\* packet of the latest storeRetained on the topic, alone, or the empty list if
\* there was none.
C9_RetainedExact ==
    [][\A i \in Calls :
         ( /\ callback'.call = i
           /\ callback'.op.kind = "lookupRetained"
           /\ \A k \in DOMAIN callback'.op.pattern : callback'.op.pattern[k] \notin {"+", "#"} ) =>
           /\ ops[i].pc = "none"
           /\ calls' = i
           /\ scans' = scans
           /\ callback'.value = IF latest[callback'.op.pattern] = Nil THEN <<>>
                                ELSE <<Val(latest[callback'.op.pattern])>>
      ]_vars

\* C9 witness: the third call looks up a topic without a wildcard and gets,
\* alone, the packet that the second call stored on it
C9_Witness ==
    /\ Completed("lookupRetained")
    /\ callback.call = 3
    /\ callback.op.pattern \in Topics
    /\ Len(callback.value) = 1
    /\ callback.value[1].messageId = 2
    /\ \A t \in Topics \ {callback.op.pattern} : latest[t] = Nil
    /\ scans = 0

\* C10: lookupRetained of a pattern with a wildcard enumerates the hash once,
\* fetches the stored topics that the pattern matches, each once, adds to its
\* result the packet stored under the topic when it is fetched, and hands back
\* one packet per such topic and none for any other.
C10_RetainedWildcard ==
    [][\A i \in Calls :
         /\ ( /\ ops[i].pc = "none"
              /\ calls' = i
              /\ \/ ops'[i].kind = "lookupRetained"
                 \/ callback'.call = i /\ callback'.op.kind = "lookupRetained" ) =>
              LET op == IF ops'[i].pc = "each" THEN ops'[i] ELSE callback'.op
              IN  (\E k \in DOMAIN op.pattern : op.pattern[k] \in {"+", "#"}) =>
                     /\ op.fanout = { t \in Topics : /\ latest[t] # Nil
                                                     /\ Matches(op.pattern, t) }
                     /\ scans' = scans + 1
                     /\ op.fanout = {} <=> callback'.call = i
         /\ (ops[i].kind = "lookupRetained" /\ ops'[i] # ops[i]) =>
              \E t \in ops[i].topics :
                 LET matched == Append(ops[i].matched, Val(latest[t]))
                 IN  /\ scans' = scans
                     /\ IF ops[i].topics = {t}
                        THEN callback' = Callback(i, ops[i], matched)
                        ELSE /\ ops'[i].topics = ops[i].topics \ {t}
                             /\ ops'[i].matched = matched
         /\ ( /\ callback'.call = i
              /\ callback'.op.kind = "lookupRetained"
              /\ \E k \in DOMAIN callback'.op.pattern : callback'.op.pattern[k] \in {"+", "#"} ) =>
              /\ { p.topic : p \in Range(callback'.value) } = callback'.op.fanout
              /\ Len(callback'.value) = Cardinality(callback'.op.fanout)
      ]_vars

\* C10 witness: with packets stored under a/b and a/b/c, a lookup of a/+ hands
\* back the packet of a/b alone
C10_Witness ==
    /\ Completed("lookupRetained")
    /\ callback.op.pattern = <<"a", "+">>
    /\ \A t \in Topics : latest[t] # Nil
    /\ callback.value = <<Val(latest[<<"a", "b">>])>>

(* ------------------------------ C11 ----------------------------------- *)
\* C11: a node that takes from the channel a notice whose process is its own
\* identity issues no store request and leaves its Matcher and its pending reads
\* as they are; a node that takes a notice of another process reads the key the
\* notice names: the entries of the record under that key are in its Matcher
\* afterwards, or the one retry of that key is pending.
C11_SelfEcho ==
    [][\A n \in Nodes :
         message(n) =>
            LET parsed == Head(inbox[n])
                retry == [node |-> n, key |-> parsed.key, cb |-> FALSE, retried |-> TRUE]
            IN  IF parsed.process = _uuid[n]
                THEN /\ request' = NoRequest
                     /\ _subMatcher' = _subMatcher
                     /\ newSubs' = newSubs
                ELSE /\ request'.cmd = "get"
                     /\ IF subsStore[parsed.key] = Nil
                        THEN retry \in newSubs' /\ _subMatcher' = _subMatcher
                        ELSE _subMatcher'[n] = _subMatcher[n] \cup
                                newSubEntries(parsed.key, Val(subsStore[parsed.key]).json)
      ]_vars

\* C11 witness: A stored a session of client c while both nodes listened; A has
\* taken its own notice and holds what storeSubscriptions added, B has taken the
\* same notice and holds the entries it read from the record
C11_Witness ==
    /\ written[SubsKey(<<"c">>)] # Nil
    /\ Idle
    /\ inbox["A"] = <<>> /\ inbox["B"] = <<>>
    /\ newSubs = {}
    /\ request = NoRequest
    /\ _subMatcher["B"] = newSubEntries(SubsKey(<<"c">>), Val(subsStore[SubsKey(<<"c">>)]).json)
    /\ _subMatcher["B"] # {}

(* ------------------------------ C12 ----------------------------------- *)
\* the record under key is missing or does not parse as an object
Unreadable(key) == subsStore[key] = Nil \/ ~IsObject(subsStore[key])

\* task t of newSubs is the read that node n has pending for key
Retry(n, key, cb) == [node |-> n, key |-> key, cb |-> cb, retried |-> TRUE]

\* a read of key on node n that found no usable record ends without an exception,
\* without a Matcher entry, without a callback to any caller, and leaves the reads
\* in pending
Dropped(pending) ==
    /\ ~request'.thrown
    /\ _subMatcher' = _subMatcher
    /\ callback' = NoCallback
    /\ ready' = ready
    /\ newSubs' = pending

\* C12: a resync read (for a notice or in the full resync) that finds no record,
\* or a record that does not parse as an object, schedules one retry of the key
\* and adds nothing; the retry, if it finds no usable record either, schedules
\* nothing more, adds no Matcher entry and raises no error.
C12_RetryOnce ==
    [][/\ \A n \in Nodes :
            ( /\ message(n)
              /\ Head(inbox[n]).process # _uuid[n]
              /\ Unreadable(Head(inbox[n]).key) ) =>
               Dropped(newSubs \cup {Retry(n, Head(inbox[n]).key, FALSE)})
       /\ \A t \in newSubs :
            (newSubRead(t) /\ Unreadable(t.key)) =>
               IF t.retried
               THEN Dropped(newSubs \ {t})
               ELSE Dropped((newSubs \ {t}) \cup {Retry(t.node, t.key, t.cb)})
      ]_vars

\* C12 for the records the code does retry: a read that finds no record, or finds
\* the JSON of a number, is retried once and then dropped
C12_RetryOnceOfParsed ==
    [][/\ \A n \in Nodes :
            ( /\ message(n)
              /\ Head(inbox[n]).process # _uuid[n]
              /\ Unreadable(Head(inbox[n]).key)
              /\ ~SyntaxError(subsStore[Head(inbox[n]).key]) ) =>
               Dropped(newSubs \cup {Retry(n, Head(inbox[n]).key, FALSE)})
       /\ \A t \in newSubs :
            (newSubRead(t) /\ Unreadable(t.key) /\ ~SyntaxError(subsStore[t.key])) =>
               IF t.retried
               THEN Dropped(newSubs \ {t})
               ELSE Dropped((newSubs \ {t}) \cup {Retry(t.node, t.key, t.cb)})
      ]_vars

(* ------------------------------ C13 ----------------------------------- *)
\* the key of the session of operation i
KeyOf(i) == SubsKey(ops[i].client.id)

\* C13: storeSubscriptions of a non-clean session leaves the call with the set and
\* the publish both pending and done not called. Each reply is for one of the two;
\* done is called by a reply exactly if it was not called before and the reply is
\* an error or the last of the two, and it receives that reply's error or success.
\* A successful set writes the record and a successful publish reaches the channel
\* whether or not the other request failed, and a failed request changes neither
\* the record nor the channel.
C13_Join ==
    [][\A i \in Calls :
         /\ (ops[i].pc = "none" /\ ops'[i].kind = "storeSubscriptions" /\ ops'[i].pc # "done") =>
              /\ ops'[i].todo = {"set", "publish"}
              /\ ~ops'[i].failed
              /\ callback' = NoCallback
              /\ request' = NoRequest
         /\ (ops[i].kind = "storeSubscriptions" /\ ops[i].pc = "parallel" /\ ops'[i] # ops[i]) =>
              /\ request'.call = i
              /\ request'.cmd \in ops[i].todo
              /\ ops'[i].pc = "done" <=> ops[i].todo = {request'.cmd}
              /\ ops'[i].pc # "done" =>
                   /\ ops'[i].todo = ops[i].todo \ {request'.cmd}
                   /\ ops'[i].failed <=> request'.err
              /\ callback'.call = i <=>
                   (~ops[i].failed /\ (request'.err \/ ops[i].todo = {request'.cmd}))
              /\ callback'.call = i => callback'.err = request'.err
              /\ callback'.call # i => callback' = NoCallback
              /\ IF request'.cmd = "set" /\ ~request'.err
                 THEN subsStore'[KeyOf(i)] = Some(Stringify(ops[i].subscriptions))
                 ELSE subsStore' = subsStore
              /\ IF request'.cmd = "publish" /\ ~request'.err
                 THEN \A n \in Nodes :
                         status[n] \in {"resync", "active"} =>
                            inbox'[n] = Append(inbox[n], Notice(ops[i].node, KeyOf(i)))
                 ELSE inbox' = inbox
      ]_vars

\* C13 witness: the set of a session failed and done got the error; the publish,
\* answered afterwards, has put the notice on the channel and done is not called again
C13_Witness ==
    /\ request.cmd = "publish" /\ ~request.err
    /\ ops[request.call].pc = "done"
    /\ callback = NoCallback
    /\ inbox["A"] # <<>>
    /\ subsStore[SubsKey(<<"c">>)] = Nil
    /\ faults = MaxFaults - 1

(* ------------------------------ C14 ----------------------------------- *)
\* the non-clean sessions lookupSubscriptions is called with
Resumed == { client \in Sessions : ~client.clean }

\* a lookupSubscriptions of a non-clean session whose get was answered without
\* error goes on to the del with the empty map, without an exception and with the
\* Matcher as it was
EmptyLookup ==
    /\ ~request'.thrown
    /\ _subMatcher' = _subMatcher
    /\ ops'[calls'].pc = "series"
    /\ ops'[calls'].subscriptions = <<>>

\* the del of a lookupSubscriptions that is answered without error hands done the
\* map the get left, and no error
LookupDone ==
    \A i \in Calls :
       (lookupSubscriptionsDel(i) /\ ~request'.err) =>
          /\ callback'.call = i
          /\ ~callback'.err
          /\ callback'.value = ops[i].subscriptions

\* C14: lookupSubscriptions of a non-clean session whose record is missing, or is
\* not the JSON of a map, leaves the Matcher unchanged and completes with the
\* empty map and no error.
C14_Malformed ==
    [][/\ \A n \in Nodes, client \in Resumed :
            ( /\ lookupSubscriptions(n, client)
              /\ Unreadable(SubsKey(client.id))
              /\ ~request'.err ) => EmptyLookup
       /\ LookupDone
      ]_vars

\* C14 for a missing record: the lookup leaves the Matcher unchanged and completes
\* with the empty map and no error
C14_Missing ==
    [][/\ \A n \in Nodes, client \in Resumed :
            ( /\ lookupSubscriptions(n, client)
              /\ subsStore[SubsKey(client.id)] = Nil
              /\ ~request'.err ) => EmptyLookup
       /\ LookupDone
      ]_vars

(* ------------------------------ C15 ----------------------------------- *)
\* operation i has no request pending and will issue none: it was called and
\* every request it issued has been answered
Ended(i) == ops[i].pc = "done"

\* C15: no invocation of a public operation is left pending: when the last
\* request of an invocation has been answered (or the call issued none), its
\* caller has been given a completion, by that step or, with an error, before.
C15_Completion ==
    [][\A i \in Calls :
         (~Ended(i) /\ Ended(i)') => (callback'.call = i \/ ops[i].failed)
      ]_vars

\* C15 for the operations other than streamOfflinePackets, against a store that
\* answers every request without error
C15_CompletionOfOthers ==
    [][\A i \in Calls :
         (~Ended(i) /\ Ended(i)' /\ ops[i].kind # "streamOfflinePackets") =>
            (callback'.call = i \/ ops[i].failed)
      ]_vars

(* ------------------------------ C16 ----------------------------------- *)
\* every record that storeSubscriptions wrote carries subscriptions.ttl
RecordsExpire ==
    \A key \in SubsKeys : written[key] # Nil => expiry.subs[key] = Some(ttlSubscriptions)

\* every backlog key that exists carries packets.ttl
BacklogsExpire ==
    \A client \in Ids : packetsStore[client] # <<>> => expiry.packets[client] = Some(ttlPackets)

\* C16: every subscription record written by storeSubscriptions carries the
\* subscriptions time-to-live, and every backlog key that exists in the store
\* carries the packets time-to-live.
C16_Expiry == RecordsExpire /\ BacklogsExpire

\* C16 for the subscription records alone
C16_RecordExpiry == RecordsExpire

(* ------------------------------ C17 ----------------------------------- *)
\* C17: the call of storeSubscriptions for a non-clean session leaves every qos>0
\* pattern of the session associated with the client in the calling node's
\* Matcher, whatever the Matcher held before, so that the client is matched by
\* every topic that one of these patterns matches.
C17_LocalUpdate ==
    [][\A n \in Nodes, client \in { c \in Clients : ~c.clean } :
         storeSubscriptions(n, client) =>
            /\ GrantedEntries(client.subscriptions, client.id) \subseteq _subMatcher'[n]
            /\ \A topic \in Topics :
                  (\E s \in Granted(client.subscriptions) : Matches(s.pattern, topic)) =>
                     client.id \in MatcherMatch(_subMatcher'[n], topic)
      ]_vars

(* ------------------------------ C18 ----------------------------------- *)
\* the patterns that the sessions hold with qos 0 and no session holds with a
\* higher qos
QosZeroOnly ==
    { p \in UNION { Keys(m) : m \in SubscriptionMaps } :
        \A m \in SubscriptionMaps : \A s \in Range(m) : s.pattern = p => s.qos = 0 }

Surfaced(i) == (callback'.call = i /\ callback'.err) \/ ops[i].failed

\* C19: whenever a store request of a public operation is answered with an
\* error, the error is delivered to the operation's caller through its callback,
\* and a lookupSubscriptions whose get failed ends without issuing the del.
C19_Surfaced ==
    [][\A i \in Calls :
         (request'.call = i /\ request'.err) =>
            /\ Surfaced(i)
            /\ (request'.cmd = "get" /\ callback'.op.kind = "lookupSubscriptions") =>
                  Ended(i)'
      ]_vars

\* C19 for the requests whose callback is the caller's or async's: the set and
\* the publish of storeSubscriptions, the del of lookupSubscriptions and of the
\* cleanup with a done, the lpush of storeOfflinePacket, the hset of
\* storeRetained and the hget of lookupRetained
C19_SurfacedByAsync ==
    [][\A i \in Calls :
         ( /\ request'.call = i
           /\ request'.err
           /\ request'.cmd \in {"set", "publish", "del", "lpush", "hset", "hget"}
           /\ ops[i].kind # "streamOfflinePackets" ) => Surfaced(i)
      ]_vars

(* ------------------------------ C20 ----------------------------------- *)
\* C20: when the store evicts a subscription record because its time-to-live ran
\* out, the Matcher of every node is left as it was; an entry leaves a Matcher
\* only in the step of a lookupSubscriptions or a cleanup on that node, and
\* storeOfflinePacket on a node hands the packet to every client that the node's
\* Matcher associates with a matching pattern, whether or not the client's record
\* still exists.
C20_ExpiryFrame ==
    [][/\ \A key \in SubsKeys :
            expire(key) => /\ _subMatcher' = _subMatcher
                           /\ packetsStore' = packetsStore
                           /\ subsStore'[key] = Nil
       /\ \A n \in Nodes :
            ~(_subMatcher[n] \subseteq _subMatcher'[n]) =>
               /\ request'.cmd = "get"
               /\ request'.call = calls'
               /\ calls' = calls + 1
               /\ \/ ops'[calls'].kind = "lookupSubscriptions" /\ ops'[calls'].node = n
                  \/ callback'.op.kind = "lookupSubscriptions" /\ callback'.op.node = n
       /\ \A n \in Nodes, topic \in Topics :
            storeOfflinePacket(n, topic) =>
               LET op == IF ops'[calls'].pc = "each" THEN ops'[calls'] ELSE callback'.op
               IN  op.matches = Holds(n, topic)
       /\ \A i \in Calls, client \in Ids :
            (_storePacket(i, client) /\ client \in ops[i].matches) =>
               appended'[client] = Append(appended[client], Val(ops[i].packet).messageId)
      ]_vars

\* C20 witness: the record of client c has been evicted, B still holds the
\* entries it read from it, and with the record gone B has appended a packet to
\* the backlog of c
C20_Witness ==
    /\ subsStore[SubsKey(<<"c">>)] = Nil
    /\ expiry.subs[SubsKey(<<"c">>)] = Nil
    /\ \E e \in _subMatcher["B"] : e[2] = <<"c">>
    /\ Completed("storeOfflinePacket")
    /\ callback.op.node = "B"
    /\ <<"c">> \in callback.op.matches
    /\ packetsStore[<<"c">>] # <<>>
    /\ calls = 2

(* ------------------------------ C21 ----------------------------------- *)
\* what a read of key for a notice on node n does to the Matchers when the
\* entries of the record go to id
Repaired(n, key, id) ==
    /\ \A m \in Nodes \ {n} : _subMatcher'[m] = _subMatcher[m]
    /\ _subMatcher'[n] =
          _subMatcher[n] \cup
             (IF Unreadable(key) THEN {}
              ELSE { <<P, id>> : P \in Keys(Val(subsStore[key]).json) })

\* C21: a node that processes a notice of another node for key K adds (P, C) for
\* every pattern P of the record under K, C being the client the key is of, and
\* changes nothing else in any Matcher: no entry is removed and no entry of
\* another client appears.
C21_Scoped ==
    [][/\ \A n \in Nodes :
            (message(n) /\ Head(inbox[n]).process # _uuid[n]) =>
               Repaired(n, Head(inbox[n]).key, ClientOf(Head(inbox[n]).key))
       /\ \A t \in newSubs :
            (newSubRead(t) /\ ~t.cb) => Repaired(t.node, t.key, ClientOf(t.key))
      ]_vars

\* C21 with the id the code derives from the key: the repair adds the patterns of
\* the record under that id and removes nothing
C21_AddOnly ==
    [][/\ \A n \in Nodes :
            (message(n) /\ Head(inbox[n]).process # _uuid[n]) =>
               Repaired(n, Head(inbox[n]).key, KeyId(Head(inbox[n]).key))
       /\ \A t \in newSubs :
            (newSubRead(t) /\ ~t.cb) => Repaired(t.node, t.key, KeyId(t.key))
      ]_vars

(* ------------------------------ C22 ----------------------------------- *)
\* node n has a start-up read pending, whose callback counts towards ready
Reading(n) == \E t \in newSubs : t.node = n /\ t.cb

\* the channel subscription of node n is confirmed and its ready callback has not
\* been invoked
Starting(n) == Listening(n) /\ ready[n] = <<>>

\* C22: the ready callback of an instance is invoked at most once, and an
\* instance whose subscription is confirmed and whose ready callback has not been
\* invoked has a start-up read pending whose reply can invoke it: start-up is
\* never left with nothing to wait for.
C22_Startup ==
    \A n \in Nodes :
       /\ Len(ready[n]) <= 1
       /\ Starting(n) => Reading(n)

\* C22 for the invocations that happen: the ready callback is never invoked twice
C22_ReadyOnce == \A n \in Nodes : Len(ready[n]) <= 1

\* C22 for a start-up read that the store answers with an error: the ready
\* callback is invoked with the error by that step, if it was not invoked before
C22_ReadError ==
    [][\A t \in newSubs :
         (newSubRead(t) /\ t.cb /\ request'.err /\ ready[t.node] = <<>>) =>
            ready'[t.node] = <<"err">>
      ]_vars

(* ------------------------------ C23 ----------------------------------- *)
\* a resync read of key on node n that fetched a record leaves every pattern of
\* the record associated with the client that storeSubscriptions wrote the key for
WriterId(n, key) ==
    ~Unreadable(key) =>
       \A P \in Keys(Val(subsStore[key]).json) : <<P, ClientOf(key)>> \in _subMatcher'[n]

\* C23: the id under which a resync read (for a notice or at start-up) adds the
\* patterns of the record of a key to the Matcher is the client id under which
\* storeSubscriptions wrote that key, for every client id.
C23_WriterId ==
    [][/\ \A n \in Nodes :
            (message(n) /\ Head(inbox[n]).process # _uuid[n]) =>
               WriterId(n, Head(inbox[n]).key)
       /\ \A t \in newSubs : newSubRead(t) => WriterId(t.node, t.key)
      ]_vars

\* C23 for the client ids without ':'
C23_WriterIdPlain ==
    [][/\ \A n \in Nodes :
            ( /\ message(n)
              /\ Head(inbox[n]).process # _uuid[n]
              /\ Len(ClientOf(Head(inbox[n]).key)) = 1 ) =>
               WriterId(n, Head(inbox[n]).key)
       /\ \A t \in newSubs :
            (newSubRead(t) /\ Len(ClientOf(t.key)) = 1) => WriterId(t.node, t.key)
      ]_vars

(* ------------------------------ C24 ----------------------------------- *)
\* the drains of client c that are running
Drains(c) ==
    { i \in Calls : ops[i].kind = "streamOfflinePackets" /\ ops[i].pc = "rpop"
                    /\ ops[i].client.id = c }

\* C24: with drains of one client running side by side on either node while
\* packets are queued, a packet handed to a drain is in the backlog before the
\* step and not after it and has been handed to no running drain before; a
\* packet enters a backlog only by its one push, so that one handed over never
\* comes back; and what each drain has been handed is in the order of the pushes.
C24_AtMostOnce ==
    [][\A c \in Ids :
         /\ \A i \in Drains(c) :
              (callback'.call = i) =>
                 LET m == callback'.value.messageId
                 IN  /\ m \in Backlog(packetsStore[c])
                     /\ m \notin Backlog(packetsStore'[c])
                     /\ \A j \in Drains(c) : m \notin Range(ops[j].delivered)
                     /\ ops'[i].delivered = Append(ops[i].delivered, m)
         /\ \A m \in Backlog(packetsStore'[c]) \ Backlog(packetsStore[c]) :
              Count(appended[c], m) = 0 /\ Count(appended'[c], m) = 1
         /\ Len(packetsStore'[c]) = Cardinality(Backlog(packetsStore'[c]))
         /\ \A i \in Calls :
              (ops'[i].pc = "rpop" /\ ops'[i].client.id = c) =>
                 \A j, k \in DOMAIN ops'[i].delivered :
                    j < k => Position(appended'[c], ops'[i].delivered[j])
                               < Position(appended'[c], ops'[i].delivered[k])
      ]_vars

\* C24 witness: two drains of client c run side by side, one on each node; two
\* packets were queued, and each drain has been handed one of them
C24_Witness ==
    \E i, j \in Drains(<<"c">>) :
       /\ ops[i].node = "A" /\ ops[j].node = "B"
       /\ Len(ops[i].delivered) = 1 /\ Len(ops[j].delivered) = 1
       /\ ops[i].delivered # ops[j].delivered
       /\ Len(appended[<<"c">>]) = 2

(* ------------------------------ C25 ----------------------------------- *)
\* C25: the del of a lookupSubscriptions deletes only the record its get read: if
\* a storeSubscriptions has written a record for the client since the get, that
\* record is still in the store after the del.
C25_NoLostWrite ==
    [][\A i \in Calls :
         ( /\ lookupSubscriptionsDel(i)
           /\ ~request'.err
           /\ written[KeyOf(i)] # Nil
           /\ written[KeyOf(i)] # ops[i].source ) =>
            /\ subsStore'[KeyOf(i)] = subsStore[KeyOf(i)]
            /\ written'[KeyOf(i)] = written[KeyOf(i)]
      ]_vars

====
